---------------------------- MODULE Spec2Model ----------------------------
(***************************************************************************)
(* Transaction ledger and reconciliation engine of the Buying & Selling    *)
(* Dashboard: validators (validators.py), pricing calculator               *)
(* (calculations.py), ledger store (database.py) and transaction engine    *)
(* (transactions.py).                                                      *)
(*                                                                         *)
(* Decimals are fixed-point integers counted in hundredths (Scale): 100   *)
(* stands for 1.00.  The inputs are chosen on a grid on which every        *)
(* product below is exact.  Text is a sequence of one-character strings.   *)
(***************************************************************************)
EXTENDS Integers, Sequences, FiniteSets, TLC

(***************************************************************************)
(* Bounds of the model.                                                    *)
(***************************************************************************)
MaxId == 2          \* ids the SERIAL sequence hands out in one behaviour
MaxText == 2        \* longest text drawn for the validators on their own

Scale == 100        \* fixed-point denominator: hundredths
RateScale == 1000   \* denominator of the percentage rates

(***************************************************************************)
(* config.py, AppConfig.  Rates are in 1/RateScale, per-quintal charges    *)
(* and the minima in hundredths, the maxima in whole units (they are whole *)
(* numbers in the source; MAX_AMOUNT in hundredths would not fit the       *)
(* integer width of TLC, see Exceeds).                                     *)
(***************************************************************************)
MANDI_CHARGE_RATE == 15
MUDDAT_RATE == 15
CASH_DISCOUNT_RATE == 40
TRACTOR_RENT_PER_QUINTAL == 15 * Scale
LABOUR_CHARGE_PER_QUINTAL == 60 * Scale
TRANSPORT_CHARGE_PER_QUINTAL == 280 * Scale
MAX_QUANTITY == 10000
MAX_PRICE == 1000000
MAX_AMOUNT == 100000000
MIN_QUANTITY == 1
MIN_PRICE == 1
MAX_NAME_LENGTH == 100
MAX_ITEM_NAME_LENGTH == 100
MAX_NOTES_LENGTH == 500

(***************************************************************************)
(* Fixed-point arithmetic.                                                 *)
(***************************************************************************)
\* (a * b) \div Scale, without forming a * b
Mul(a, b) == (a \div Scale) * b + ((a % Scale) * b) \div Scale
MulRate(rate, a) == (rate * a) \div RateScale
\* v (hundredths) > limit (whole units), without forming limit * Scale
Exceeds(v, limit) ==
    \/ v \div Scale > limit
    \/ v \div Scale = limit /\ v % Scale > 0

(***************************************************************************)
(* Python values handed to the numeric validator: a float, a bool, NaN /   *)
(* None, or something that is no number at all.  A float is v hundredths   *)
(* plus f thousandths (0 <= f < 10); only floats with f = 0 are ever       *)
(* stored.                                                                 *)
(***************************************************************************)
Float(n) == [t |-> "float", v |-> n, f |-> 0]
FloatFine(n, f) == [t |-> "float", v |-> n, f |-> f]
PyTrue == [t |-> "bool", v |-> 1]
PyNaN == [t |-> "nan", v |-> 0]
PyStr == [t |-> "str", v |-> 0]

None == "None"      \* the absent error message
NoId == 0           \* Optional[int] None; also the falsy link id

(***************************************************************************)
(* validators.py                                                           *)
(***************************************************************************)
WordChars == {"a", "m", "R", "W", "1", "_", "N", "o", "n", "e"}
Whitespace == {" ", "\t"}
\* ^[\w .,'\&/()-]+$
NAME_ALLOWED_PATTERN == WordChars \cup {" ", ".", ",", "'", "&", "/", "(", ")", "-"}
\* ^[\w .,'\&/()-+%]+$ : inside the class, )-+ is the range ')' .. '+'
ITEM_ALLOWED_PATTERN == WordChars \cup {" ", ".", ",", "'", "&", "/", "(", ")", "*", "+", "%"}

FirstOfRun(m) == ~m[2]
\* re.sub(r"\s+", " ", value): of each run of whitespace only the first
\* character stays, as one space
CollapseWs(s) ==
    LET marked == [i \in 1..Len(s) |->
                      <<IF s[i] \in Whitespace THEN " " ELSE s[i],
                        i > 1 /\ s[i] \in Whitespace /\ s[i - 1] \in Whitespace>>]
        kept == SelectSeq(marked, FirstOfRun)
    IN  [k \in 1..Len(kept) |-> kept[k][1]]

RECURSIVE LStrip(_)
LStrip(s) ==
    IF s # <<>> /\ Head(s) \in Whitespace THEN LStrip(Tail(s)) ELSE s

RECURSIVE RStrip(_)
RStrip(s) ==
    IF s # <<>> /\ s[Len(s)] \in Whitespace
    THEN RStrip(SubSeq(s, 1, Len(s) - 1)) ELSE s

Strip(s) == RStrip(LStrip(s))

normalize_text(value) ==
    IF value = <<>> THEN <<>> ELSE Strip(CollapseWs(value))

HasAngle(s) == \E i \in 1..Len(s) : s[i] \in {"<", ">"}

validate_text_field(value, field_name, max_length, pattern) ==
    IF value = <<>> \/ Strip(value) = <<>>
    THEN <<FALSE, field_name \o " cannot be empty">>
    ELSE IF Len(value) > max_length
    THEN <<FALSE, field_name \o " exceeds maximum length">>
    ELSE IF HasAngle(value)
    THEN <<FALSE, field_name \o " contains invalid characters">>
    ELSE IF ~(\A i \in 1..Len(value) : value[i] \in pattern)
    THEN <<FALSE, field_name \o " contains unsupported characters">>
    ELSE <<TRUE, None>>

validate_name(name, field_name) ==
    validate_text_field(normalize_text(name), field_name,
                        MAX_NAME_LENGTH, NAME_ALLOWED_PATTERN)

validate_item_name(name) ==
    validate_text_field(normalize_text(name), "Item Name",
                        MAX_ITEM_NAME_LENGTH, ITEM_ALLOWED_PATTERN)

\* the range test with the minimum itself excluded
validate_numeric_value_Exclusive(value, min_val, max_val, field_name) ==
    IF value.t = "nan"
    THEN <<FALSE, field_name \o " cannot be empty">>
    ELSE IF value.t # "float"
    THEN <<FALSE, field_name \o " must be a number">>
    ELSE IF value.v <= min_val
    THEN <<FALSE, field_name \o " must be at least min">>
    ELSE IF \/ Exceeds(value.v, max_val)
            \/ value.v \div Scale = max_val /\ value.v % Scale = 0 /\ value.f > 0
    THEN <<FALSE, field_name \o " cannot exceed max">>
    ELSE <<TRUE, None>>

\* min_val in hundredths, max_val in whole units
validate_numeric_value(value, min_val, max_val, field_name) ==
    IF value.t = "nan"
    THEN <<FALSE, field_name \o " cannot be empty">>
    ELSE IF value.t # "float"
    THEN <<FALSE, field_name \o " must be a number">>
    ELSE IF value.v < min_val
    THEN <<FALSE, field_name \o " must be at least min">>
    ELSE IF \/ Exceeds(value.v, max_val)
            \/ value.v \div Scale = max_val /\ value.v % Scale = 0 /\ value.f > 0
    THEN <<FALSE, field_name \o " cannot exceed max">>
    ELSE <<TRUE, None>>

\* the notes rule without its angle-bracket test
validate_notes_LengthOnly(notes) ==
    IF notes = <<>> THEN <<TRUE, None>>
    ELSE IF Len(notes) > MAX_NOTES_LENGTH
    THEN <<FALSE, "Notes exceed maximum length">>
    ELSE <<TRUE, None>>

validate_notes(notes) ==
    IF notes = <<>> THEN <<TRUE, None>>
    ELSE IF Len(notes) > MAX_NOTES_LENGTH
    THEN <<FALSE, "Notes exceed maximum length">>
    ELSE IF HasAngle(notes)
    THEN <<FALSE, "Notes contain invalid characters">>
    ELSE <<TRUE, None>>

NotAngle(c) == c \notin {"<", ">"}
\* re.sub(r"[<>]", "", input_str)
RemoveAngle(s) == SelectSeq(s, NotAngle)

\* the input stored as typed
sanitize_string_Raw(input_str) == input_str

sanitize_string(input_str) ==
    IF input_str = <<>> THEN <<>> ELSE normalize_text(RemoveAngle(input_str))

(***************************************************************************)
(* calculations.py.  Both calculators raise ValueError on a non-positive   *)
(* argument; CalcRaises is that guard.                                     *)
(***************************************************************************)
CalcRaises(price, weight_quintal) == price <= 0 \/ weight_quintal <= 0

\* the total without muddat
calculate_buying_price_NoMuddat(buying_price, weight_quintal) ==
    LET mandi_charge == MulRate(MANDI_CHARGE_RATE, buying_price)
        tractor_rent == Mul(TRACTOR_RENT_PER_QUINTAL, weight_quintal)
        muddat == MulRate(MUDDAT_RATE, buying_price)
    IN  <<buying_price + mandi_charge + tractor_rent,
          mandi_charge, tractor_rent, muddat>>

calculate_buying_price(buying_price, weight_quintal) ==
    LET mandi_charge == MulRate(MANDI_CHARGE_RATE, buying_price)
        tractor_rent == Mul(TRACTOR_RENT_PER_QUINTAL, weight_quintal)
        muddat == MulRate(MUDDAT_RATE, buying_price)
    IN  <<buying_price + mandi_charge + tractor_rent + muddat,
          mandi_charge, tractor_rent, muddat>>

\* the total without the floor at 0
calculate_selling_price_NoFloor(selling_price, weight_quintal) ==
    LET cash_discount == MulRate(CASH_DISCOUNT_RATE, selling_price)
        labour_charge == Mul(LABOUR_CHARGE_PER_QUINTAL, weight_quintal)
        transport_charge == Mul(TRANSPORT_CHARGE_PER_QUINTAL, weight_quintal)
    IN  <<selling_price - cash_discount - labour_charge - transport_charge,
          cash_discount, labour_charge, transport_charge>>

calculate_selling_price(selling_price, weight_quintal) ==
    LET cash_discount == MulRate(CASH_DISCOUNT_RATE, selling_price)
        labour_charge == Mul(LABOUR_CHARGE_PER_QUINTAL, weight_quintal)
        transport_charge == Mul(TRANSPORT_CHARGE_PER_QUINTAL, weight_quintal)
        total == selling_price - cash_discount - labour_charge - transport_charge
    IN  <<IF total < 0 THEN 0 ELSE total,
          cash_discount, labour_charge, transport_charge>>

(***************************************************************************)
(* State.                                                                  *)
(*   db        the committed rows of table transactions, keyed by id       *)
(*   seq       last id handed out by the id sequence                       *)
(*   pc        where each session is inside a handler                      *)
(*   local     the local variables of the handler a session is in or has   *)
(*             just left                                                   *)
(*   ret       what the last handler of each session returned, with the    *)
(*             message it showed through st.error                          *)
(*   settled   history: the ids of the purchases named by a linked sale    *)
(*             that returned its id (the table has no column for the link) *)
(***************************************************************************)
VARIABLES db, seq, pc, local, ret, settled

vars == <<db, seq, pc, local, ret, settled>>

Procs == {1}

\* two browser sessions of the application, each running its handlers in a
\* thread of its own against the one database
Sessions == {1, 2}

\* the ids handed out in one behaviour: MaxId, and one more for each session
\* beyond the first
IdLimit == MaxId + Cardinality(DOMAIN pc) - 1

Null == <<"NULL">>      \* SQL NULL in a text column

\* updated_at holds a reading of the clock; the model keeps which statement
\* wrote it last: the INSERT (DEFAULT CURRENT_TIMESTAMP) or an UPDATE
\* (datetime.now()).  transaction_date and created_at are written by the
\* INSERT only and read by no handler; party_id is never written.
Inserted == "insert"
Refreshed == "update"

\* the table without its CHECK constraints on the amounts
CheckConstraints_TypesOnly(row) ==
    /\ row.transaction_type \in {"BUY", "SELL"}
    /\ row.item_name # Null
    /\ row.status \in {"PENDING", "SOLD", "COMPLETED"}

\* database.py, CREATE TABLE transactions: the CHECK constraints
CheckConstraints(row) ==
    /\ row.transaction_type \in {"BUY", "SELL"}
    /\ row.item_name # Null
    /\ row.quantity_kg > 0
    /\ row.price_per_unit > 0
    /\ row.base_amount >= 0
    /\ row.mandi_charge >= 0
    /\ row.tractor_rent >= 0
    /\ row.muddat >= 0
    /\ row.cash_discount >= 0
    /\ row.labour_charge >= 0
    /\ row.transport_charge >= 0
    /\ row.total_amount >= 0
    /\ row.amount_paid >= 0
    /\ row.status \in {"PENDING", "SOLD", "COMPLETED"}

\* normalize_dataframe: NULL in an object column reads back as ""
normalize_dataframe(row) ==
    [row EXCEPT !.buyer_name = IF @ = Null THEN <<>> ELSE @,
                !.seller_name = IF @ = Null THEN <<>> ELSE @,
                !.notes = IF @ = Null THEN <<>> ELSE @]

\* SELECT * FROM transactions WHERE id = %s : zero or one normalized row
SelectById(table, transaction_id) ==
    IF transaction_id \in DOMAIN table
    THEN <<normalize_dataframe(table[transaction_id])>>
    ELSE <<>>

get_transaction_by_id(transaction_id) == SelectById(db, transaction_id)

\* the first failing validator decides the message (each handler returns
\* at the first failure)
RECURSIVE FirstError(_)
FirstError(results) ==
    IF results = <<>> THEN None
    ELSE IF ~Head(results)[1] THEN Head(results)[2]
    ELSE FirstError(Tail(results))

NoLocal == [op |-> "none", args |-> <<>>, transaction_id |-> NoId]
NoRet == [op |-> "none", id |-> NoId, ok |-> FALSE, err |-> None]

\* a session enters handler op with arguments args
Called(p, op, args) ==
    /\ pc[p] = "idle"
    /\ local' = [local EXCEPT ![p] =
                    [op |-> op, args |-> args, transaction_id |-> NoId]]

\* the handler returns to the page that called it
Returned(p, op, id, ok, err) ==
    /\ ret' = [ret EXCEPT ![p] = [op |-> op, id |-> id, ok |-> ok, err |-> err]]
    /\ pc' = [pc EXCEPT ![p] = "done"]

\* a handler returns its failure value and writes nothing
Rejected(p, op, err) ==
    /\ Returned(p, op, NoId, FALSE, err)
    /\ UNCHANGED <<db, seq, settled>>

\* an INSERT that stores the last id handed out instead of a new one
InsertRow_StaleId(row) == [row EXCEPT !.id = seq]

\* INSERT INTO transactions ...; conn.commit(); c.lastrowid
InsertRow(row) == [row EXCEPT !.id = seq + 1]

Init ==
    /\ db = <<>>
    /\ seq = 0
    /\ pc = [p \in Procs |-> "idle"]
    /\ local = [p \in Procs |-> NoLocal]
    /\ ret = [p \in Procs |-> NoRet]
    /\ settled = {}

(***************************************************************************)
(* transactions.py, add_buying_transaction                                 *)
(***************************************************************************)
BuyValidation(buyer_name, item_name, quantity_quintal, price_per_unit, amount_paid, notes) ==
    FirstError(<<validate_name(buyer_name, "Buyer Name"),
                 validate_item_name(item_name),
                 validate_numeric_value(quantity_quintal, MIN_QUANTITY,
                                        MAX_QUANTITY, "Quantity"),
                 validate_numeric_value(price_per_unit, MIN_PRICE,
                                        MAX_PRICE, "Price per Unit"),
                 validate_numeric_value(amount_paid, 0, MAX_AMOUNT,
                                        "Amount Paid"),
                 validate_notes(notes)>>)

\* line 97
BuyOverpaid(amount_paid, total_amount) == amount_paid > total_amount

BuyRow(buyer_name, item_name, quantity_quintal, price_per_unit, mandi_charge, tractor_rent, muddat, total_amount, amount_paid, notes) ==
    [id |-> NoId,
     transaction_type |-> "BUY",
     buyer_name |-> sanitize_string(buyer_name),
     seller_name |-> Null,
     item_name |-> sanitize_string(item_name),
     quantity_kg |-> quantity_quintal,
     price_per_unit |-> price_per_unit,
     base_amount |-> Mul(price_per_unit, quantity_quintal),
     mandi_charge |-> mandi_charge,
     tractor_rent |-> tractor_rent,
     muddat |-> muddat,
     cash_discount |-> 0,
     labour_charge |-> 0,
     transport_charge |-> 0,
     total_amount |-> total_amount,
     amount_paid |-> amount_paid,
     notes |-> sanitize_string(notes),
     status |-> "PENDING",
     updated_at |-> Inserted]

add_buying_transaction(p, buyer_name, item_name, quantity_quintal, price_per_unit, mandi_charge, tractor_rent, muddat, total_amount, amount_paid, notes) ==
    LET op == "add_buying_transaction"
        args == [buyer_name |-> buyer_name, item_name |-> item_name,
                 quantity_quintal |-> quantity_quintal,
                 price_per_unit |-> price_per_unit,
                 mandi_charge |-> mandi_charge, tractor_rent |-> tractor_rent,
                 muddat |-> muddat, total_amount |-> total_amount,
                 amount_paid |-> amount_paid, notes |-> notes]
        error_msg == BuyValidation(buyer_name, item_name, quantity_quintal,
                                   price_per_unit, amount_paid, notes)
        row == BuyRow(buyer_name, item_name, quantity_quintal.v,
                      price_per_unit.v, mandi_charge, tractor_rent, muddat,
                      total_amount, amount_paid.v, notes)
    IN  /\ Called(p, op, args)
        /\ IF error_msg # None
           THEN Rejected(p, op, error_msg)
           ELSE IF BuyOverpaid(amount_paid.v, total_amount)
           THEN Rejected(p, op, "Amount Paid cannot exceed total amount")
           ELSE IF ~CheckConstraints(row)
           THEN Rejected(p, op, "Database error")
           ELSE /\ seq < IdLimit
                /\ db' = (seq + 1 :> InsertRow(row)) @@ db
                /\ seq' = seq + 1
                /\ Returned(p, op, seq + 1, TRUE, None)
                /\ UNCHANGED settled

(***************************************************************************)
(* transactions.py, add_selling_transaction.  The handler commits twice:   *)
(* the INSERT of the SELL row, then the UPDATE of the linked purchase, so  *)
(* it is three steps: the checks (which read the linked purchase through   *)
(* a connection of their own), the INSERT with its commit, and the UPDATE  *)
(* with its commit.                                                        *)
(***************************************************************************)
SellValidation(seller_name, item_name, quantity_quintal, price_per_unit, amount_paid, notes) ==
    FirstError(<<validate_name(seller_name, "Seller Name"),
                 validate_item_name(item_name),
                 validate_numeric_value(quantity_quintal, MIN_QUANTITY,
                                        MAX_QUANTITY, "Quantity"),
                 validate_numeric_value(price_per_unit, MIN_PRICE,
                                        MAX_PRICE, "Price per Unit"),
                 validate_numeric_value(amount_paid, 0, MAX_AMOUNT,
                                        "Amount Received"),
                 validate_notes(notes)>>)

\* the check with >= : a sale paid in full is turned away
SellOverpaid_OrEqual(amount_paid, total_amount) == amount_paid >= total_amount

\* line 207
SellOverpaid(amount_paid, total_amount) == amount_paid > total_amount

\* the check without the status: any BUY can be linked
PendingBuy_AnyStatus(linked_row) ==
    linked_row.transaction_type = "BUY"

\* line 218
PendingBuy(linked_row) ==
    ~(linked_row.transaction_type # "BUY" \/ linked_row.status # "PENDING")

\* the check with >= : a sale of the whole purchase is turned away
QuantityExceeds_OrEqual(quantity_quintal, linked_qty) ==
    quantity_quintal >= linked_qty

\* line 223
QuantityExceeds(quantity_quintal, linked_qty) == quantity_quintal > linked_qty

\* lines 211-228: the message of the failing link check, or None
LinkedPurchaseError(buy_transaction_id, quantity_quintal) ==
    LET linked == get_transaction_by_id(buy_transaction_id)
    IN  IF buy_transaction_id = NoId THEN None
        ELSE IF linked = <<>> THEN "Linked purchase not found"
        ELSE IF ~PendingBuy(linked[1])
        THEN "Linked purchase must be a pending BUY transaction"
        ELSE IF QuantityExceeds(quantity_quintal, linked[1].quantity_kg)
        THEN "Selling quantity cannot exceed linked purchase quantity"
        ELSE None

\* a sale inserted with the column default of database.py line 99
SellStatus_Default == "PENDING"

\* line 240: the status literal of the SELL INSERT
SellStatus == "COMPLETED"

\* a SELL INSERT that writes the counterparty into both name columns
SellRow_BothNames(seller_name, item_name, quantity_quintal, price_per_unit, cash_discount, labour_charge, transport_charge, total_amount, amount_paid, notes) ==
    [id |-> NoId,
     transaction_type |-> "SELL",
     buyer_name |-> sanitize_string(seller_name),
     seller_name |-> sanitize_string(seller_name),
     item_name |-> sanitize_string(item_name),
     quantity_kg |-> quantity_quintal,
     price_per_unit |-> price_per_unit,
     base_amount |-> Mul(price_per_unit, quantity_quintal),
     mandi_charge |-> 0,
     tractor_rent |-> 0,
     muddat |-> 0,
     cash_discount |-> cash_discount,
     labour_charge |-> labour_charge,
     transport_charge |-> transport_charge,
     total_amount |-> total_amount,
     amount_paid |-> amount_paid,
     notes |-> sanitize_string(notes),
     status |-> SellStatus,
     updated_at |-> Inserted]

\* lines 232-240: the SELL INSERT
SellRow(seller_name, item_name, quantity_quintal, price_per_unit, cash_discount, labour_charge, transport_charge, total_amount, amount_paid, notes) ==
    [id |-> NoId,
     transaction_type |-> "SELL",
     buyer_name |-> Null,
     seller_name |-> sanitize_string(seller_name),
     item_name |-> sanitize_string(item_name),
     quantity_kg |-> quantity_quintal,
     price_per_unit |-> price_per_unit,
     base_amount |-> Mul(price_per_unit, quantity_quintal),
     mandi_charge |-> 0,
     tractor_rent |-> 0,
     muddat |-> 0,
     cash_discount |-> cash_discount,
     labour_charge |-> labour_charge,
     transport_charge |-> transport_charge,
     total_amount |-> total_amount,
     amount_paid |-> amount_paid,
     notes |-> sanitize_string(notes),
     status |-> SellStatus,
     updated_at |-> Inserted]

\* lines 160-228: validation, overpayment check, link check
add_selling_transaction(p, seller_name, item_name, quantity_quintal, price_per_unit, cash_discount, labour_charge, transport_charge, total_amount, amount_paid, buy_transaction_id, notes) ==
    LET op == "add_selling_transaction"
        args == [seller_name |-> seller_name, item_name |-> item_name,
                 quantity_quintal |-> quantity_quintal,
                 price_per_unit |-> price_per_unit,
                 cash_discount |-> cash_discount,
                 labour_charge |-> labour_charge,
                 transport_charge |-> transport_charge,
                 total_amount |-> total_amount, amount_paid |-> amount_paid,
                 buy_transaction_id |-> buy_transaction_id, notes |-> notes]
        error_msg == SellValidation(seller_name, item_name, quantity_quintal,
                                    price_per_unit, amount_paid, notes)
        link_msg == LinkedPurchaseError(buy_transaction_id, quantity_quintal.v)
    IN  /\ Called(p, op, args)
        /\ IF error_msg # None
           THEN Rejected(p, op, error_msg)
           ELSE IF SellOverpaid(amount_paid.v, total_amount)
           THEN Rejected(p, op, "Amount Received cannot exceed total amount")
           ELSE IF link_msg # None
           THEN Rejected(p, op, link_msg)
           ELSE /\ pc' = [pc EXCEPT ![p] = "sell_insert"]
                /\ UNCHANGED <<db, seq, ret, settled>>

\* lines 230-243: INSERT, conn.commit(), c.lastrowid
SellInsert(p) ==
    LET op == "add_selling_transaction"
        a == local[p].args
        row == SellRow(a.seller_name, a.item_name, a.quantity_quintal.v,
                       a.price_per_unit.v, a.cash_discount, a.labour_charge,
                       a.transport_charge, a.total_amount, a.amount_paid.v,
                       a.notes)
    IN  /\ pc[p] = "sell_insert"
        /\ IF ~CheckConstraints(row)
           THEN Rejected(p, op, "Database error") /\ UNCHANGED local
           ELSE /\ seq < IdLimit
                /\ db' = (seq + 1 :> InsertRow(row)) @@ db
                /\ seq' = seq + 1
                /\ local' = [local EXCEPT ![p].transaction_id = seq + 1]
                /\ UNCHANGED settled
                /\ IF a.buy_transaction_id # NoId
                   THEN /\ pc' = [pc EXCEPT ![p] = "sell_link"]
                        /\ UNCHANGED ret
                   ELSE Returned(p, op, seq + 1, TRUE, None)

\* the UPDATE without its status column: only updated_at is refreshed
MarkSold_StatusKept(row) == [row EXCEPT !.updated_at = Refreshed]

\* line 247: UPDATE transactions SET status = 'SOLD', updated_at = ? WHERE id = ?
MarkSold(row) == [row EXCEPT !.status = "SOLD", !.updated_at = Refreshed]

\* lines 246-253: the UPDATE, its commit, and the return of the new id
SellLink(p) ==
    LET b == local[p].args.buy_transaction_id
    IN  /\ pc[p] = "sell_link"
        /\ db' = IF b \in DOMAIN db
                 THEN [db EXCEPT ![b] = MarkSold(db[b])]
                 ELSE db
        /\ settled' = settled \cup {b}
        /\ Returned(p, "add_selling_transaction", local[p].transaction_id,
                    TRUE, None)
        /\ UNCHANGED <<seq, local>>

\* lines 255-258: the UPDATE (or its commit) raises after the INSERT was
\* committed; the handler logs, shows the error and returns None
SellLinkFails(p) ==
    /\ pc[p] = "sell_link"
    /\ Rejected(p, "add_selling_transaction", "Database error")
    /\ UNCHANGED local

(***************************************************************************)
(* transactions.py, update_payment                                         *)
(***************************************************************************)
\* the ceiling of app.py line 955: total_amount
PaymentCap_Total(row) == row.total_amount

\* lines 293-302: the ceiling is price * quantity, not total_amount
PaymentCap(row) == Mul(row.price_per_unit, row.quantity_kg)

\* an UPDATE that also closes the row: SET amount_paid, status, updated_at
update_payment_Closes(p, transaction_id, amount_paid) ==
    LET op == "update_payment"
        args == [transaction_id |-> transaction_id, amount_paid |-> amount_paid]
        v == validate_numeric_value(amount_paid, 0, MAX_AMOUNT, "Amount Paid")
        transaction_df == get_transaction_by_id(transaction_id)
    IN  /\ Called(p, op, args)
        /\ IF ~v[1]
           THEN Rejected(p, op, v[2])
           ELSE IF transaction_df = <<>>
           THEN Rejected(p, op, "Transaction not found")
           ELSE IF amount_paid.v > PaymentCap(transaction_df[1])
           THEN Rejected(p, op, "Amount paid cannot exceed base amount")
           ELSE /\ db' = [db EXCEPT ![transaction_id].amount_paid = amount_paid.v,
                                    ![transaction_id].status = "COMPLETED",
                                    ![transaction_id].updated_at = Refreshed]
                /\ Returned(p, op, transaction_id, TRUE, None)
                /\ UNCHANGED <<seq, settled>>

\* lines 265-336
update_payment(p, transaction_id, amount_paid) ==
    LET op == "update_payment"
        args == [transaction_id |-> transaction_id, amount_paid |-> amount_paid]
        v == validate_numeric_value(amount_paid, 0, MAX_AMOUNT, "Amount Paid")
        transaction_df == get_transaction_by_id(transaction_id)
    IN  /\ Called(p, op, args)
        /\ IF ~v[1]
           THEN Rejected(p, op, v[2])
           ELSE IF transaction_df = <<>>
           THEN Rejected(p, op, "Transaction not found")
           ELSE IF amount_paid.v > PaymentCap(transaction_df[1])
           THEN Rejected(p, op, "Amount paid cannot exceed base amount")
           ELSE /\ db' = [db EXCEPT ![transaction_id].amount_paid = amount_paid.v,
                                    ![transaction_id].updated_at = Refreshed]
                /\ Returned(p, op, transaction_id, TRUE, None)
                /\ UNCHANGED <<seq, settled>>

(***************************************************************************)
(* database.py, delete_transaction                                         *)
(***************************************************************************)
\* a delete that spares the rows a sale has settled
DeleteRow_PendingOnly(table, transaction_id) ==
    [i \in {j \in DOMAIN table :
                j # transaction_id \/ table[j].status = "SOLD"} |-> table[i]]

\* line 222: DELETE FROM transactions WHERE id = %s
DeleteRow(table, transaction_id) ==
    [i \in DOMAIN table \ {transaction_id} |-> table[i]]

\* a delete that cascades from a settled purchase to the sales
delete_transaction_Cascade(p, transaction_id) ==
    /\ Called(p, "delete_transaction", [transaction_id |-> transaction_id])
    /\ IF transaction_id \in DOMAIN db
       THEN /\ db' = [i \in {j \in DOMAIN db \ {transaction_id} :
                                 db[transaction_id].status = "SOLD"
                                 => db[j].transaction_type # "SELL"} |-> db[i]]
            /\ Returned(p, "delete_transaction", transaction_id, TRUE, None)
            /\ UNCHANGED <<seq, settled>>
       ELSE Rejected(p, "delete_transaction", None)

\* lines 219-241: c.rowcount > 0 decides the return value
delete_transaction(p, transaction_id) ==
    /\ Called(p, "delete_transaction", [transaction_id |-> transaction_id])
    /\ IF transaction_id \in DOMAIN db
       THEN /\ db' = DeleteRow(db, transaction_id)
            /\ Returned(p, "delete_transaction", transaction_id, TRUE, None)
            /\ UNCHANGED <<seq, settled>>
       ELSE Rejected(p, "delete_transaction", None)

(***************************************************************************)
(* Callers and their inputs.  The record pages compute the charges with    *)
(* the calculator and pass them to the engine; their number widgets keep   *)
(* the numbers inside the configured ranges, so the numeric validators of  *)
(* the engine are exercised by direct calls of the engine functions.       *)
(* Invalid values are tried one field at a time, with nothing paid and, in *)
(* a sale, with no link or a link to the oldest purchase.                  *)
(***************************************************************************)
Ram == <<"R", "a", "m">>
Wheat == <<"W">>
LongName == [i \in 1..(MAX_NAME_LENGTH + 1) |-> "a"]
LongNotes == [i \in 1..(MAX_NOTES_LENGTH + 1) |-> "a"]

\* <<counterparty name, item name, notes>>
GoodText == <<Ram, Wheat, <<>>>>
BadTexts ==
    {<<n, Wheat, <<>>>> : n \in {<<" ">>, <<"R", "<">>, <<"R", "#">>, LongName}}
    \cup {<<Ram, <<"W", "#">>, <<>>>>}
    \cup {<<Ram, Wheat, n>> : n \in {<<"<">>, LongNotes}}
Texts == {GoodText, <<<<" ", "R", "a", "m">>, Wheat, <<>>>>} \cup BadTexts

\* <<quantity, price per quintal>> entered on the pages
BuyInputs == {<<2 * Scale, 1000 * Scale>>}
SellInputs == {<<1 * Scale, 200 * Scale>>, <<2 * Scale, 1000 * Scale>>}

\* amounts at and around a ceiling
Around(ceiling) == {0, ceiling, ceiling + 1}

PendingIds == {i \in DOMAIN db : db[i].status = "PENDING"}

\* views/record_buying.py, lines 100-124
render_record_buying(p) ==
    \E text \in Texts, input \in BuyInputs :
        LET quantity_quintal == input[1]
            price_per_unit == input[2]
            base_amount == Mul(price_per_unit, quantity_quintal)
            calc == calculate_buying_price(base_amount, quantity_quintal)
        IN  /\ text = GoodText \/ input = CHOOSE i \in BuyInputs : TRUE
            /\ text[1] # <<>> /\ text[2] # <<>>
            /\ ~CalcRaises(base_amount, quantity_quintal)
            /\ \E amount_paid \in Around(calc[1]) :
                   /\ text \notin BadTexts \/ amount_paid = 0
                   /\ add_buying_transaction(p, text[1], text[2],
                          Float(quantity_quintal), Float(price_per_unit),
                          calc[2], calc[3], calc[4], calc[1],
                          Float(amount_paid), text[3])

\* views/record_selling.py, lines 36-58 and 179-192
render_record_selling(p) ==
    \E text \in Texts, input \in SellInputs,
       link_purchase \in PendingIds \cup {NoId} :
        LET quantity_quintal == input[1]
            price_per_unit == input[2]
            base_amount == Mul(price_per_unit, quantity_quintal)
            calc == calculate_selling_price(base_amount, quantity_quintal)
        IN  /\ text = GoodText \/ input = CHOOSE i \in SellInputs : TRUE
            /\ text[1] # <<>> /\ text[2] # <<>>
            /\ ~CalcRaises(base_amount, quantity_quintal)
            /\ \E amount_paid \in Around(calc[1]) :
                   /\ \/ text \notin BadTexts
                      \/ /\ amount_paid = 0
                         /\ \A j \in PendingIds : link_purchase <= j
                   /\ add_selling_transaction(p, text[1], text[2],
                          Float(quantity_quintal), Float(price_per_unit),
                          calc[2], calc[3], calc[4], calc[1],
                          Float(amount_paid), link_purchase, text[3])

\* arguments of a direct engine call: the valid call a page would make,
\* with one argument replaced
ApiArgs(calc) ==
    LET good == [quantity |-> Float(2 * Scale), price |-> Float(1000 * Scale),
                 paid |-> Float(0), total |-> calc[1], c1 |-> calc[2],
                 c2 |-> calc[3], c3 |-> calc[4]]
    IN  {[good EXCEPT !.quantity = q] :
             q \in {Float(0), Float(MAX_QUANTITY * Scale + 1), PyNaN, PyStr,
                    Float(3 * Scale)}}
        \cup {[good EXCEPT !.price = x] :
                 x \in {Float(0), Float(MAX_PRICE * Scale + 1), PyTrue}}
        \cup {[good EXCEPT !.paid = x] : x \in {Float(-1), PyNaN}}
        \cup {[good EXCEPT !.c1 = -1]}

\* a direct call of add_buying_transaction
CallAddBuying(p) ==
    \E a \in ApiArgs(calculate_buying_price(2000 * Scale, 2 * Scale)) :
        add_buying_transaction(p, Ram, Wheat, a.quantity, a.price,
            a.c1, a.c2, a.c3, a.total, a.paid, <<>>)

\* a direct call of add_selling_transaction
CallAddSelling(p) ==
    \E a \in ApiArgs(calculate_selling_price(2000 * Scale, 2 * Scale)),
       buy_transaction_id \in 0..(MaxId + 1) :
        /\ a.quantity = Float(3 * Scale) \/ buy_transaction_id <= 1
        /\ add_selling_transaction(p, Ram, Wheat, a.quantity, a.price,
               a.c1, a.c2, a.c3, a.total, a.paid, buy_transaction_id, <<>>)

\* views/ledger.py and views/view_transactions.py: the payment forms
CallUpdatePayment(p) ==
    \E transaction_id \in 1..MaxId :
        \E amount_paid \in
              {Float(-1), PyNaN} \cup
              {Float(a) : a \in IF transaction_id \in DOMAIN db
                                THEN Around(PaymentCap(db[transaction_id])) \ {0}
                                ELSE {0}} :
            update_payment(p, transaction_id, amount_paid)

\* views/view_transactions.py, line 167
CallDelete(p) ==
    \E transaction_id \in 1..MaxId : delete_transaction(p, transaction_id)

(***************************************************************************)
(* database.py get_all_transactions and utils.py get_transaction_summary,  *)
(* as views/dashboard.py calls them.  A DataFrame is the sequence of its   *)
(* rows.                                                                   *)
(***************************************************************************)
\* SELECT * FROM transactions ORDER BY id DESC, rows with id <= n
RECURSIVE RowsDesc(_, _)
RowsDesc(table, n) ==
    IF n = 0 THEN <<>>
    ELSE SelectById(table, n) \o RowsDesc(table, n - 1)

get_all_transactions == RowsDesc(db, seq)

\* df['total_amount'].sum()
RECURSIVE SumTotalAmount(_)
SumTotalAmount(df) ==
    IF df = <<>> THEN 0 ELSE Head(df).total_amount + SumTotalAmount(Tail(df))

IsBuy(row) == row.transaction_type = "BUY"
IsSell(row) == row.transaction_type = "SELL"
\* a test that takes every purchase for pending
IsPending_AnyBuy(row) == row.transaction_type = "BUY"

\* status = 'PENDING' (database.py line 179, utils.py line 75)
IsPending(row) == row.status = "PENDING"

\* the profit with the operands swapped
get_transaction_summary_Swapped(df) ==
    IF df = <<>>
    THEN [total_buy |-> 0, total_sell |-> 0, profit_loss |-> 0,
          pending_count |-> 0, total_transactions |-> 0]
    ELSE LET total_buy == SumTotalAmount(SelectSeq(df, IsBuy))
             total_sell == SumTotalAmount(SelectSeq(df, IsSell))
         IN  [total_buy |-> total_buy,
              total_sell |-> total_sell,
              profit_loss |-> total_buy - total_sell,
              pending_count |-> Len(SelectSeq(df, IsPending)),
              total_transactions |-> Len(df)]

get_transaction_summary(df) ==
    IF df = <<>>
    THEN [total_buy |-> 0, total_sell |-> 0, profit_loss |-> 0,
          pending_count |-> 0, total_transactions |-> 0]
    ELSE LET total_buy == SumTotalAmount(SelectSeq(df, IsBuy))
             total_sell == SumTotalAmount(SelectSeq(df, IsSell))
         IN  [total_buy |-> total_buy,
              total_sell |-> total_sell,
              profit_loss |-> total_sell - total_buy,
              pending_count |-> Len(SelectSeq(df, IsPending)),
              total_transactions |-> Len(df)]

\* a read-only page call: it returns value and writes nothing
Shown(p, op, value) ==
    /\ Called(p, op, <<>>)
    /\ pc' = [pc EXCEPT ![p] = "done"]
    /\ ret' = [ret EXCEPT ![p] = [op |-> op, id |-> NoId, ok |-> TRUE,
                                  err |-> None, value |-> value]]
    /\ UNCHANGED <<db, seq, settled>>

\* get_transaction_summary(get_all_transactions()), as in
\* views/dashboard.py lines 19-22, also on the empty ledger
CallSummary(p) ==
    Shown(p, "get_transaction_summary",
          get_transaction_summary(get_all_transactions))

\* the page has shown the outcome; the session waits for the next request
Rerun(p) ==
    /\ pc[p] = "done"
    /\ pc' = [pc EXCEPT ![p] = "idle"]
    /\ ret' = [ret EXCEPT ![p] = NoRet]
    /\ local' = [local EXCEPT ![p] = NoLocal]
    /\ UNCHANGED <<db, seq, settled>>

Next ==
    \/ \E p \in Procs : render_record_buying(p)
    \/ \E p \in Procs : render_record_selling(p)
    \/ \E p \in Procs : CallAddBuying(p)
    \/ \E p \in Procs : CallAddSelling(p)
    \/ \E p \in Procs : SellInsert(p)
    \/ \E p \in Procs : SellLink(p)
    \/ \E p \in Procs : CallUpdatePayment(p)
    \/ \E p \in Procs : CallDelete(p)
    \/ \E p \in Procs : CallSummary(p)
    \/ \E p \in Procs : Rerun(p)

\* single writer, no storage failure
Spec == Init /\ [][Next]_vars

NextFault ==
    \/ Next
    \/ \E p \in Procs : SellLinkFails(p)

\* single writer; the statement after the first commit may fail
SpecFault == Init /\ [][NextFault]_vars

(***************************************************************************)
(* views/ledger.py: the party ledgers.  A ledger is the set of its rows.   *)
(***************************************************************************)
RECURSIVE SumBaseAmount(_)
SumBaseAmount(df) ==
    IF df = <<>> THEN 0 ELSE Head(df).base_amount + SumBaseAmount(Tail(df))

RECURSIVE SumAmountPaid(_)
SumAmountPaid(df) ==
    IF df = <<>> THEN 0 ELSE Head(df).amount_paid + SumAmountPaid(Tail(df))

NoneName == <<"N", "o", "n", "e">>      \* the string 'None'

\* lines 83 and 204: 'Cleared' if balance <= 0.01 else 'Pending'
LedgerStatus(balance) == IF balance <= 1 THEN "Cleared" ELSE "Pending"

\* lines 75-84 and 196-205: one ledger row from a party's transactions
LedgerRow(party, trans) ==
    [party |-> party,
     base_amount |-> SumBaseAmount(trans),
     paid |-> SumAmountPaid(trans),
     balance |-> SumBaseAmount(trans) - SumAmountPaid(trans),
     transactions |-> Len(trans),
     status |-> LedgerStatus(SumBaseAmount(trans) - SumAmountPaid(trans))]

\* lines 53-84
buyer_ledger(df) ==
    LET buyer_df == SelectSeq(df, IsBuy)
        buyers == {buyer_df[i].buyer_name : i \in 1..Len(buyer_df)} \ {<<>>}
    IN  {LedgerRow(buyer,
                   SelectSeq(buyer_df, LAMBDA row : row.buyer_name = buyer)) :
             buyer \in buyers}

\* lines 169-205: the seller filter also drops the name 'None'
seller_ledger(df) ==
    LET seller_df ==
            SelectSeq(df, LAMBDA row : /\ IsSell(row)
                                       /\ row.seller_name # <<>>
                                       /\ row.seller_name # NoneName)
        sellers == {seller_df[i].seller_name : i \in 1..Len(seller_df)}
                       \ {<<>>, NoneName}
    IN  {LedgerRow(seller,
                   SelectSeq(seller_df, LAMBDA row : row.seller_name = seller)) :
             seller \in sellers}

\* views/ledger.py, render_ledger lines 23-34 and the two tabs
render_buyer_ledger(p) ==
    Shown(p, "render_buyer_ledger", buyer_ledger(get_all_transactions))

render_seller_ledger(p) ==
    Shown(p, "render_seller_ledger", seller_ledger(get_all_transactions))

\* the record pages used by two parties, one of them named None
LedgerNames == {Ram, NoneName}

LedgerPurchase(p) ==
    \E buyer_name \in LedgerNames :
        LET base_amount == Mul(1000 * Scale, 2 * Scale)
            calc == calculate_buying_price(base_amount, 2 * Scale)
        IN  \E amount_paid \in {0, base_amount, calc[1]} :
                add_buying_transaction(p, buyer_name, Wheat, Float(2 * Scale),
                    Float(1000 * Scale), calc[2], calc[3], calc[4], calc[1],
                    Float(amount_paid), <<>>)

LedgerSale(p) ==
    \E seller_name \in LedgerNames :
        LET base_amount == Mul(1000 * Scale, 2 * Scale)
            calc == calculate_selling_price(base_amount, 2 * Scale)
        IN  \E amount_paid \in {0, calc[1]} :
                add_selling_transaction(p, seller_name, Wheat,
                    Float(2 * Scale), Float(1000 * Scale), calc[2], calc[3],
                    calc[4], calc[1], Float(amount_paid), NoId, <<>>)

NextLedger ==
    \/ \E p \in Procs : LedgerPurchase(p)
    \/ \E p \in Procs : LedgerSale(p)
    \/ \E p \in Procs : SellInsert(p)
    \/ \E p \in Procs : render_buyer_ledger(p)
    \/ \E p \in Procs : render_seller_ledger(p)
    \/ \E p \in Procs : Rerun(p)

SpecLedger == Init /\ [][NextLedger]_vars

(***************************************************************************)
(* The engine called with quantities at and around the ends of the         *)
(* quantity range, at price 1.00, with the charges of the calculator (of   *)
(* one quintal when the quantity is no positive number).                   *)
(***************************************************************************)
BoundaryQuantities ==
    {FloatFine(0, 9), Float(MIN_QUANTITY), Float(MAX_QUANTITY * Scale),
     Float(MAX_QUANTITY * Scale + 1), FloatFine(MAX_QUANTITY * Scale, 1),
     Float(0), Float(1 * Scale), PyTrue, PyNaN, PyStr}

\* the quantity the caller computes the charges for
ChargedQuantity(quantity_quintal) ==
    IF quantity_quintal.t = "float" /\ quantity_quintal.v > 0
    THEN quantity_quintal.v
    ELSE 1 * Scale

BoundaryPurchase(p) ==
    \E quantity_quintal \in BoundaryQuantities :
        LET q == ChargedQuantity(quantity_quintal)
            calc == calculate_buying_price(Mul(1 * Scale, q), q)
        IN  add_buying_transaction(p, Ram, Wheat, quantity_quintal,
                Float(1 * Scale), calc[2], calc[3], calc[4], calc[1],
                Float(0), <<>>)

BoundarySale(p) ==
    \E quantity_quintal \in BoundaryQuantities :
        LET q == ChargedQuantity(quantity_quintal)
            calc == calculate_selling_price(Mul(1 * Scale, q), q)
        IN  add_selling_transaction(p, Ram, Wheat, quantity_quintal,
                Float(1 * Scale), calc[2], calc[3], calc[4], calc[1],
                Float(0), NoId, <<>>)

NextBoundary ==
    \/ \E p \in Procs : BoundaryPurchase(p)
    \/ \E p \in Procs : BoundarySale(p)
    \/ \E p \in Procs : SellInsert(p)
    \/ \E p \in Procs : Rerun(p)

SpecBoundary == Init /\ [][NextBoundary]_vars

(***************************************************************************)
(* The calculators on their own: a call of calculate_buying_price or       *)
(* calculate_selling_price with arguments drawn from CalcPrices and        *)
(* CalcWeights (hundredths), among them non-positive ones, for which the   *)
(* functions raise ValueError.                                             *)
(***************************************************************************)
CalcPrices ==
    {-1, 0, 1, 67, 200 * Scale, 348 * Scale, 2000 * Scale, 10000 * Scale}
CalcWeights == {-1, 0, 1, 50, 1 * Scale, 2 * Scale, 10 * Scale}

InitCalc ==
    /\ db = <<>>
    /\ seq = 0
    /\ settled = {}
    /\ pc = [p \in Procs |-> "idle"]
    /\ ret = [p \in Procs |-> NoRet]
    /\ local \in {[p \in Procs |->
                     [op |-> "calculate",
                      args |-> [price |-> x, weight_quintal |-> w],
                      transaction_id |-> NoId]] :
                  x \in CalcPrices, w \in CalcWeights}

\* the call returns the tuple, or raises ValueError
CalcReturn(p, op, value) ==
    LET a == local[p].args
    IN  /\ pc[p] = "idle"
        /\ pc' = [pc EXCEPT ![p] = "done"]
        /\ ret' = [ret EXCEPT ![p] =
                      IF CalcRaises(a.price, a.weight_quintal)
                      THEN [op |-> op, id |-> NoId, ok |-> FALSE,
                            err |-> "ValueError", value |-> <<>>]
                      ELSE [op |-> op, id |-> NoId, ok |-> TRUE,
                            err |-> None, value |-> value]]
        /\ UNCHANGED <<db, seq, settled, local>>

CalcBuying(p) ==
    CalcReturn(p, "calculate_buying_price",
               calculate_buying_price(local[p].args.price,
                                      local[p].args.weight_quintal))

CalcSelling(p) ==
    CalcReturn(p, "calculate_selling_price",
               calculate_selling_price(local[p].args.price,
                                       local[p].args.weight_quintal))

NextCalc ==
    \/ \E p \in Procs : CalcBuying(p)
    \/ \E p \in Procs : CalcSelling(p)

SpecCalc == InitCalc /\ [][NextCalc]_vars

(***************************************************************************)
(* The field rules of the engine, stated on the arguments of a call.       *)
(***************************************************************************)
Buy == "add_buying_transaction"
Sell == "add_selling_transaction"
Pay == "update_payment"

TextRuleOk(text, max_length, allowed) ==
    LET n == normalize_text(text)
    IN  /\ n # <<>>
        /\ Len(n) <= max_length
        /\ \A i \in 1..Len(n) : n[i] \in allowed

NumRuleOk(x, min_val, max_val) ==
    /\ x.t = "float"
    /\ x.v >= min_val
    /\ ~Exceeds(x.v, max_val)
    /\ ~(x.v \div Scale = max_val /\ x.v % Scale = 0 /\ x.f > 0)

NotesRuleOk(notes) ==
    notes = <<>> \/ (Len(notes) <= MAX_NOTES_LENGTH /\ ~HasAngle(notes))

FieldsOk(a, name) ==
    /\ TextRuleOk(name, MAX_NAME_LENGTH, NAME_ALLOWED_PATTERN)
    /\ TextRuleOk(a.item_name, MAX_ITEM_NAME_LENGTH, ITEM_ALLOWED_PATTERN)
    /\ NumRuleOk(a.quantity_quintal, MIN_QUANTITY, MAX_QUANTITY)
    /\ NumRuleOk(a.price_per_unit, MIN_PRICE, MAX_PRICE)
    /\ NumRuleOk(a.amount_paid, 0, MAX_AMOUNT)
    /\ NotesRuleOk(a.notes)

\* session p enters handler op in this step
CallStep(p, op) ==
    pc[p] = "idle" /\ pc'[p] # "idle" /\ local'[p].op = op

\* in this step the handler of p returns its failure value and the ledger
\* is as before
FailsUnchanged(p) ==
    /\ pc'[p] = "done"
    /\ ~ret'[p].ok
    /\ ret'[p].id = NoId
    /\ db' = db
    /\ seq' = seq
    /\ settled' = settled

\* the linked purchase b passes the link check for sale quantity q
LinkOk(b, q) ==
    /\ b \in DOMAIN db
    /\ db[b].transaction_type = "BUY"
    /\ db[b].status = "PENDING"
    /\ q <= db[b].quantity_kg

(***************************************************************************)
(* C1.  A linked sale is atomic: once add_selling_transaction has          *)
(* returned, with either outcome and also after a failure between its two  *)
(* writes, the SELL row it inserted is not in the table while the purchase *)
(* it named is still PENDING.                                              *)
(***************************************************************************)
C1_SaleAndFlipAtomic ==
    \A p \in Procs :
        (/\ pc[p] = "done"
         /\ local[p].op = Sell
         /\ local[p].args.buy_transaction_id \in DOMAIN db
         /\ local[p].transaction_id \in DOMAIN db)
        => db[local[p].args.buy_transaction_id].status # "PENDING"

(***************************************************************************)
(* C2.  A sale whose linked_purchase_id names no transaction, a SELL, a    *)
(* purchase that is not PENDING, or a purchase of a smaller quantity than  *)
(* the sale, is rejected: it returns no id, no row is written and the      *)
(* linked purchase is as before.                                           *)
(***************************************************************************)
C2_BadLinkRejected ==
    [][\A p \in Procs :
        LET a == local'[p].args
            b == a.buy_transaction_id
        IN  (/\ CallStep(p, Sell)
             /\ b # NoId
             /\ \/ b \notin DOMAIN db
                \/ db[b].transaction_type = "SELL"
                \/ db[b].status # "PENDING"
                \/ /\ a.quantity_quintal.t = "float"
                   /\ a.quantity_quintal.v > db[b].quantity_kg)
            => FailsUnchanged(p)]_vars

\* a sale of a larger quantity than the PENDING purchase it names was rejected
C2_Witness ==
    \E p \in Procs :
        /\ pc[p] = "done"
        /\ local[p].op = Sell
        /\ local[p].args.buy_transaction_id \in DOMAIN db
        /\ db[local[p].args.buy_transaction_id].status = "PENDING"
        /\ FieldsOk(local[p].args, local[p].args.seller_name)
        /\ local[p].args.quantity_quintal.v >
               db[local[p].args.buy_transaction_id].quantity_kg
        /\ ~ret[p].ok

C4_SettledOnce ==
    [][\A p \in Procs :
        (CallStep(p, Sell) /\ local'[p].args.buy_transaction_id \in settled)
        => FailsUnchanged(p)]_vars

\* a second sale naming an already settled purchase, sold in part, was rejected
C4_Witness ==
    \E p \in Procs :
        /\ pc[p] = "done"
        /\ local[p].op = Sell
        /\ local[p].args.buy_transaction_id \in settled
        /\ local[p].args.buy_transaction_id \in DOMAIN db
        /\ FieldsOk(local[p].args, local[p].args.seller_name)
        /\ \E i \in DOMAIN db :
             /\ db[i].transaction_type = "SELL"
             /\ db[i].quantity_kg <
                    db[local[p].args.buy_transaction_id].quantity_kg
        /\ ~ret[p].ok

(***************************************************************************)
(* C5.  Every BUY row has status PENDING or SOLD and every SELL row has    *)
(* status COMPLETED.                                                       *)
(***************************************************************************)
C5_StatusByType ==
    \A i \in DOMAIN db :
        /\ db[i].transaction_type = "BUY" => db[i].status \in {"PENDING", "SOLD"}
        /\ db[i].transaction_type = "SELL" => db[i].status = "COMPLETED"

\* a purchase was flipped to SOLD next to the COMPLETED sale
C5_Witness ==
    \E i, j \in DOMAIN db :
        /\ db[i].transaction_type = "BUY" /\ db[i].status = "SOLD"
        /\ db[j].transaction_type = "SELL" /\ db[j].status = "COMPLETED"

(***************************************************************************)
(* C6.  Every persisted transaction has amount_paid <= total_amount.       *)
(***************************************************************************)
C6_PaidAtMostTotal ==
    \A i \in DOMAIN db : db[i].amount_paid <= db[i].total_amount

(***************************************************************************)
(* C7.  Every persisted transaction has amount_paid at most the ceiling    *)
(* update_payment enforces for it, price_per_unit * quantity.              *)
(***************************************************************************)
C7_PaidAtMostCeiling ==
    \A i \in DOMAIN db :
        db[i].amount_paid <= Mul(db[i].price_per_unit, db[i].quantity_kg)

(***************************************************************************)
(* C8.  update_payment on an existing transaction accepts an amount equal  *)
(* to price_per_unit * quantity and rejects every amount above it; a       *)
(* rejection returns failure and leaves the row (amount_paid, updated_at)  *)
(* as it was.                                                              *)
(***************************************************************************)
C8_PaymentCeiling ==
    [][\A p \in Procs :
        LET a == local'[p].args
            i == a.transaction_id
            cap == Mul(db[i].price_per_unit, db[i].quantity_kg)
        IN  (/\ CallStep(p, Pay)
             /\ i \in DOMAIN db
             /\ NumRuleOk(a.amount_paid, 0, MAX_AMOUNT))
            => /\ a.amount_paid.v = cap
                  => /\ ret'[p].ok
                     /\ db'[i].amount_paid = cap
               /\ a.amount_paid.v > cap
                  => /\ FailsUnchanged(p)
                     /\ db'[i].amount_paid = db[i].amount_paid
                     /\ db'[i].updated_at = db[i].updated_at]_vars

\* a row paid up to its ceiling, and a payment of one hundredth more rejected
C8_Witness ==
    \E p \in Procs :
        /\ pc[p] = "done"
        /\ local[p].op = Pay
        /\ local[p].args.transaction_id \in DOMAIN db
        /\ LET row == db[local[p].args.transaction_id]
           IN  /\ row.amount_paid = Mul(row.price_per_unit, row.quantity_kg)
               /\ local[p].args.amount_paid.v = row.amount_paid + 1
               /\ row.total_amount > row.amount_paid
        /\ ~ret[p].ok

(***************************************************************************)
(* C9.  add_buying_transaction and add_selling_transaction reject a call   *)
(* whose amount_paid is greater than total_amount and leave the ledger     *)
(* unchanged; an otherwise valid call with amount_paid equal to            *)
(* total_amount is accepted.                                               *)
(***************************************************************************)
C9_OverpaymentRejected ==
    [][\A p \in Procs :
        LET a == local'[p].args
        IN  /\ (CallStep(p, Buy) /\ FieldsOk(a, a.buyer_name))
               => /\ a.amount_paid.v > a.total_amount => FailsUnchanged(p)
                  /\ (/\ a.amount_paid.v = a.total_amount
                      /\ a.mandi_charge >= 0 /\ a.tractor_rent >= 0
                      /\ a.muddat >= 0)
                     => /\ ret'[p].ok
                        /\ ret'[p].id \in DOMAIN db' \ DOMAIN db
                        /\ db'[ret'[p].id].amount_paid = a.total_amount
            /\ (CallStep(p, Sell) /\ FieldsOk(a, a.seller_name))
               => /\ a.amount_paid.v > a.total_amount => FailsUnchanged(p)
                  /\ (/\ a.amount_paid.v = a.total_amount
                      /\ \/ a.buy_transaction_id = NoId
                         \/ LinkOk(a.buy_transaction_id, a.quantity_quintal.v))
                     => pc'[p] = "sell_insert"]_vars

\* a linked sale was rejected for overpayment and its purchase is PENDING
C9_Witness ==
    \E p \in Procs :
        /\ pc[p] = "done"
        /\ local[p].op = Sell
        /\ FieldsOk(local[p].args, local[p].args.seller_name)
        /\ local[p].args.amount_paid.v = local[p].args.total_amount + 1
        /\ local[p].args.total_amount > 0
        /\ local[p].args.buy_transaction_id \in DOMAIN db
        /\ db[local[p].args.buy_transaction_id].status = "PENDING"
        /\ ~ret[p].ok

(***************************************************************************)
(* C10.  Validation comes before any mutation: a call of                   *)
(* add_buying_transaction, add_selling_transaction or update_payment in    *)
(* which a field fails its rule returns the failure value and leaves the   *)
(* ledger unchanged.                                                       *)
(***************************************************************************)
C10_ValidationBeforeMutation ==
    [][\A p \in Procs :
        LET a == local'[p].args
        IN  (\/ CallStep(p, Buy) /\ ~FieldsOk(a, a.buyer_name)
             \/ CallStep(p, Sell) /\ ~FieldsOk(a, a.seller_name)
             \/ CallStep(p, Pay) /\ ~NumRuleOk(a.amount_paid, 0, MAX_AMOUNT))
            => FailsUnchanged(p)]_vars

\* a purchase with a quantity above the maximum was rejected while a
\* purchase row was already in the ledger
C10_Witness ==
    \E p \in Procs :
        /\ pc[p] = "done"
        /\ local[p].op = Buy
        /\ local[p].args.quantity_quintal.t = "float"
        /\ Exceeds(local[p].args.quantity_quintal.v, MAX_QUANTITY)
        /\ ~ret[p].ok
        /\ DOMAIN db # {}

Delete == "delete_transaction"

(***************************************************************************)
(* C12.  delete_transaction is an unconditional hard delete: for an        *)
(* existing id it removes exactly that row, whatever its type or status,   *)
(* and returns success; for an id that does not exist it returns failure   *)
(* and the ledger is unchanged.                                            *)
(***************************************************************************)
C12_HardDelete ==
    [][\A p \in Procs :
        LET i == local'[p].args.transaction_id
        IN  CallStep(p, Delete)
            => /\ pc'[p] = "done"
               /\ i \in DOMAIN db
                  => /\ ret'[p].ok
                     /\ DOMAIN db' = DOMAIN db \ {i}
                     /\ \A j \in DOMAIN db' : db'[j] = db[j]
                     /\ seq' = seq
               /\ i \notin DOMAIN db => FailsUnchanged(p)]_vars

\* the COMPLETED sale that settled a purchase was deleted; the purchase
\* stays, still SOLD
C12_Witness ==
    \E p \in Procs :
        /\ pc[p] = "done"
        /\ local[p].op = Delete
        /\ ret[p].ok
        /\ local[p].args.transaction_id \notin DOMAIN db
        /\ \E b \in settled :
              /\ b \in DOMAIN db
              /\ db[b].status = "SOLD"
              /\ b < local[p].args.transaction_id
              /\ Cardinality(DOMAIN db) = 1

(***************************************************************************)
(* C13.  Deleting a BUY that a linked sale has flipped to SOLD succeeds    *)
(* and leaves the SELL row that settled it, and every other row,           *)
(* unchanged: no cascade, no un-link.                                      *)
(***************************************************************************)
C13_DeleteSoldKeepsSale ==
    [][\A p \in Procs :
        LET i == local'[p].args.transaction_id
        IN  (/\ CallStep(p, Delete)
             /\ i \in DOMAIN db
             /\ i \in settled
             /\ db[i].transaction_type = "BUY"
             /\ db[i].status = "SOLD")
            => /\ ret'[p].ok
               /\ i \notin DOMAIN db'
               /\ \A j \in DOMAIN db \ {i} : j \in DOMAIN db' /\ db'[j] = db[j]
               /\ settled' = settled]_vars

\* a settled purchase was deleted and the sale that settled it is still
\* there, COMPLETED
C13_Witness ==
    \E p \in Procs :
        /\ pc[p] = "done"
        /\ local[p].op = Delete
        /\ ret[p].ok
        /\ local[p].args.transaction_id \in settled
        /\ local[p].args.transaction_id \notin DOMAIN db
        /\ \E j \in DOMAIN db :
              /\ db[j].transaction_type = "SELL"
              /\ db[j].status = "COMPLETED"
              /\ j > local[p].args.transaction_id

\* x is rate thousandths of amount, to the hundredth below
IsRateOf(x, rate, amount) ==
    x * 1000 <= rate * amount /\ rate * amount < (x + 1) * 1000

\* session p returns from calculator op with positive arguments
CalcStep(p, op) ==
    /\ pc[p] = "idle"
    /\ pc'[p] = "done"
    /\ ret'[p].op = op
    /\ local[p].args.price > 0
    /\ local[p].args.weight_quintal > 0

(***************************************************************************)
(* C14.  For all base_price > 0 and weight > 0, calculate_buying_price     *)
(* returns mandi_charge = 0.015 * base_price, tractor_rent = 15 * weight,  *)
(* muddat = 0.015 * base_price and total = base_price + mandi_charge +     *)
(* tractor_rent + muddat.                                                  *)
(***************************************************************************)
C14_BuyingPrice ==
    [][\A p \in Procs :
        LET a == local[p].args
            r == ret'[p].value
        IN  CalcStep(p, "calculate_buying_price")
            => /\ ret'[p].ok
               /\ Len(r) = 4
               /\ IsRateOf(r[2], 15, a.price)
               /\ r[3] = 15 * a.weight_quintal
               /\ IsRateOf(r[4], 15, a.price)
               /\ r[1] = a.price + r[2] + r[3] + r[4]]_vars

\* base 10000 for 10 quintals gave 150 / 150 / 150 and total 10450
C14_Witness ==
    \E p \in Procs :
        /\ pc[p] = "done"
        /\ ret[p].op = "calculate_buying_price"
        /\ local[p].args = [price |-> 1000000, weight_quintal |-> 1000]
        /\ ret[p].value = <<1045000, 15000, 15000, 15000>>

(***************************************************************************)
(* C15.  For all base_price > 0 and weight > 0, calculate_selling_price    *)
(* returns cash_discount = 0.04 * base_price, labour_charge = 60 * weight, *)
(* transport_charge = 280 * weight and total = max(0, base_price -         *)
(* cash_discount - labour_charge - transport_charge): the total is never   *)
(* negative, and the deductions are returned unclamped.                    *)
(***************************************************************************)
C15_SellingPrice ==
    [][\A p \in Procs :
        LET a == local[p].args
            r == ret'[p].value
            net == a.price - r[2] - r[3] - r[4]
        IN  CalcStep(p, "calculate_selling_price")
            => /\ ret'[p].ok
               /\ Len(r) = 4
               /\ IsRateOf(r[2], 40, a.price)
               /\ r[3] = 60 * a.weight_quintal
               /\ r[4] = 280 * a.weight_quintal
               /\ r[1] >= 0
               /\ net >= 0 => r[1] = net
               /\ net < 0 => r[1] = 0]_vars

\* base 200 for 1 quintal: deductions 8 + 60 + 280 exceed it, total 0
C15_Witness ==
    \E p \in Procs :
        /\ pc[p] = "done"
        /\ ret[p].op = "calculate_selling_price"
        /\ local[p].args = [price |-> 20000, weight_quintal |-> 100]
        /\ ret[p].value = <<0, 800, 6000, 28000>>

\* the sum of total_amount over the rows ids of table
RECURSIVE TotalOver(_, _)
TotalOver(table, ids) ==
    IF ids = {} THEN 0
    ELSE LET i == CHOOSE j \in ids : TRUE
         IN  table[i].total_amount + TotalOver(table, ids \ {i})

(***************************************************************************)
(* C16.  get_transaction_summary is a pure function of the transaction     *)
(* set: total_buy is the sum of total_amount over BUY rows, total_sell the *)
(* sum over SELL rows, profit_loss = total_sell - total_buy, pending_count *)
(* the number of PENDING rows and total_transactions the number of rows    *)
(* (all zero for the empty set); calling it again on the same set gives    *)
(* the same output, and it changes no row.                                 *)
(***************************************************************************)
C16_Summary ==
    [][\A p \in Procs :
        LET r == ret'[p].value
            buys == {i \in DOMAIN db : db[i].transaction_type = "BUY"}
            sells == {i \in DOMAIN db : db[i].transaction_type = "SELL"}
        IN  CallStep(p, "get_transaction_summary")
            => /\ r.total_buy = TotalOver(db, buys)
               /\ r.total_sell = TotalOver(db, sells)
               /\ r.profit_loss = TotalOver(db, sells) - TotalOver(db, buys)
               /\ r.pending_count =
                      Cardinality({i \in DOMAIN db : db[i].status = "PENDING"})
               /\ r.total_transactions = Cardinality(DOMAIN db)
               /\ db = <<>> => r = [total_buy |-> 0, total_sell |-> 0,
                                    profit_loss |-> 0, pending_count |-> 0,
                                    total_transactions |-> 0]
               /\ get_transaction_summary(get_all_transactions)' = r
               /\ db' = db /\ seq' = seq /\ settled' = settled]_vars

\* the summary of a settled purchase and its sale: a loss, nothing pending
C16_Witness ==
    \E p \in Procs :
        /\ pc[p] = "done"
        /\ ret[p].op = "get_transaction_summary"
        /\ ret[p].value.total_buy > ret[p].value.total_sell
        /\ ret[p].value.total_sell > 0
        /\ ret[p].value.profit_loss < 0
        /\ ret[p].value.pending_count = 0
        /\ ret[p].value.total_transactions = 2

\* the sum of field over the rows ids of table
RECURSIVE FieldOver(_, _, _)
FieldOver(table, ids, field) ==
    IF ids = {} THEN 0
    ELSE LET i == CHOOSE j \in ids : TRUE
         IN  table[i][field] + FieldOver(table, ids \ {i}, field)

\* the ids of the rows of the given role and party
PartyIds(role, name_field, party) ==
    {i \in DOMAIN db : db[i].transaction_type = role /\ db[i][name_field] = party}

\* ledger is the party ledger of role: one row for each distinct non-empty
\* counterparty name, with due, paid, balance and count
IsPartyLedger(ledger, role, name_field) ==
    LET parties == {db[i][name_field] :
                       i \in {j \in DOMAIN db : db[j].transaction_type = role}}
                   \ {<<>>, Null}
    IN  /\ {row.party : row \in ledger} = parties
        /\ Cardinality(ledger) = Cardinality(parties)
        /\ \A row \in ledger :
             LET ids == PartyIds(role, name_field, row.party)
             IN  /\ row.base_amount = FieldOver(db, ids, "base_amount")
                 /\ row.paid = FieldOver(db, ids, "amount_paid")
                 /\ row.balance = row.base_amount - row.paid
                 /\ row.transactions = Cardinality(ids)

(***************************************************************************)
(* C17.  The party ledger has, for each distinct non-empty counterparty    *)
(* name of the given role, one row whose due is the sum of base_amount     *)
(* over that party's transactions of the role, whose paid is the sum of    *)
(* amount_paid, whose balance is due - paid and whose count is the number  *)
(* of those transactions.                                                  *)
(***************************************************************************)
C17_PartyLedger ==
    [][\A p \in Procs :
        /\ CallStep(p, "render_buyer_ledger")
           => IsPartyLedger(ret'[p].value, "BUY", "buyer_name")
        /\ CallStep(p, "render_seller_ledger")
           => IsPartyLedger(ret'[p].value, "SELL", "seller_name")]_vars

(***************************************************************************)
(* C18.  A party ledger row is flagged cleared exactly when                *)
(* |balance| <= 0.01 and pending otherwise; a party whose paid total       *)
(* exceeds its due total by more than 0.01 is not flagged cleared.         *)
(***************************************************************************)
C18_ClearedFlag ==
    [][\A p \in Procs :
        (CallStep(p, "render_buyer_ledger") \/ CallStep(p, "render_seller_ledger"))
        => \A row \in ret'[p].value :
              /\ row.status \in {"Cleared", "Pending"}
              /\ row.status = "Cleared"
                 <=> (row.balance <= 1 /\ row.balance >= -1)]_vars

\* the quantity x lies in [0.01, 10000]
QuantityInRange(x) ==
    /\ x.t = "float"
    /\ x.v >= 1
    /\ x.v < 1000000 \/ (x.v = 1000000 /\ x.f = 0)

(***************************************************************************)
(* C19.  The quantity range check is inclusive at both ends:               *)
(* add_buying_transaction and add_selling_transaction accept quantity 0.01 *)
(* and quantity 10000 and reject 0.009 and 10000.01; the numeric validator *)
(* accepts exactly the values v with min <= v <= max and rejects booleans  *)
(* and values that are no numbers.                                         *)
(***************************************************************************)
C19_QuantityRange ==
    [][\A p \in Procs :
        LET a == local'[p].args
            rest_ok(name) ==
                /\ TextRuleOk(name, MAX_NAME_LENGTH, NAME_ALLOWED_PATTERN)
                /\ TextRuleOk(a.item_name, MAX_ITEM_NAME_LENGTH,
                              ITEM_ALLOWED_PATTERN)
                /\ NumRuleOk(a.price_per_unit, MIN_PRICE, MAX_PRICE)
                /\ NumRuleOk(a.amount_paid, 0, MAX_AMOUNT)
                /\ NotesRuleOk(a.notes)
                /\ a.amount_paid.v <= a.total_amount
        IN  /\ (CallStep(p, Buy) /\ rest_ok(a.buyer_name))
               => IF QuantityInRange(a.quantity_quintal)
                  THEN /\ ret'[p].ok
                       /\ db'[ret'[p].id].quantity_kg = a.quantity_quintal.v
                  ELSE FailsUnchanged(p)
            /\ (CallStep(p, Sell) /\ rest_ok(a.seller_name))
               => IF QuantityInRange(a.quantity_quintal)
                  THEN pc'[p] = "sell_insert"
                  ELSE FailsUnchanged(p)
            /\ pc[p] = "sell_insert"
               => /\ ret'[p].ok
                  /\ db'[ret'[p].id].quantity_kg = local[p].args.quantity_quintal.v]_vars

\* quantity 0.009 was rejected when a purchase of 0.01 and a sale of 10000
\* quintals were already in the ledger
C19_Witness ==
    \E p \in Procs :
        /\ pc[p] = "done"
        /\ local[p].op \in {Buy, Sell}
        /\ local[p].args.quantity_quintal = FloatFine(0, 9)
        /\ ~ret[p].ok
        /\ \E i, j \in DOMAIN db :
              /\ db[i].transaction_type = "BUY" /\ db[i].quantity_kg = 1
              /\ db[j].transaction_type = "SELL" /\ db[j].quantity_kg = 1000000

(***************************************************************************)
(* C20.  The engine derives the charges itself: every persisted BUY row    *)
(* has mandi_charge = 0.015 * base_amount, tractor_rent = 15 * quantity,   *)
(* muddat = 0.015 * base_amount and total_amount = base_amount plus the    *)
(* three charges, and every persisted SELL row has its deductions and      *)
(* total_amount equal to calculate_selling_price(base_amount, quantity),   *)
(* whatever charge and total values the caller passes in.                  *)
(***************************************************************************)
C20_EngineDerivesCharges ==
    \A i \in DOMAIN db :
        LET row == db[i]
        IN  /\ row.transaction_type = "BUY"
               => /\ IsRateOf(row.mandi_charge, 15, row.base_amount)
                  /\ row.tractor_rent = 15 * row.quantity_kg
                  /\ IsRateOf(row.muddat, 15, row.base_amount)
                  /\ row.total_amount = row.base_amount + row.mandi_charge
                                        + row.tractor_rent + row.muddat
            /\ row.transaction_type = "SELL"
               => <<row.total_amount, row.cash_discount, row.labour_charge,
                    row.transport_charge>>
                  = calculate_selling_price(row.base_amount, row.quantity_kg)

\* the amounts of a row satisfy the field constraints
AmountsValid(row) ==
    /\ row.quantity_kg > 0
    /\ row.price_per_unit > 0
    /\ \A f \in {"mandi_charge", "tractor_rent", "muddat", "cash_discount",
                 "labour_charge", "transport_charge", "total_amount",
                 "amount_paid"} : row[f] >= 0

(***************************************************************************)
(* C21.  No code path writes an invalid row: every persisted transaction   *)
(* has quantity > 0, price_per_unit > 0, every charge field >= 0,          *)
(* total_amount >= 0 and amount_paid >= 0, whatever numbers are passed to  *)
(* the engine operations; a write that would break one of these is refused *)
(* and leaves the ledger unchanged.                                        *)
(***************************************************************************)
C21_NoInvalidRow ==
    [][/\ \A i \in DOMAIN db' : AmountsValid(db'[i])
       /\ \A p \in Procs :
            LET a == local'[p].args
            IN  /\ (/\ CallStep(p, Buy)
                    /\ \/ a.quantity_quintal.t = "float" /\ a.quantity_quintal.v <= 0
                       \/ a.price_per_unit.t = "float" /\ a.price_per_unit.v <= 0
                       \/ a.amount_paid.t = "float" /\ a.amount_paid.v < 0
                       \/ a.mandi_charge < 0 \/ a.tractor_rent < 0
                       \/ a.muddat < 0 \/ a.total_amount < 0)
                   => FailsUnchanged(p)
                /\ (/\ CallStep(p, Sell)
                    /\ \/ a.quantity_quintal.t = "float" /\ a.quantity_quintal.v <= 0
                       \/ a.price_per_unit.t = "float" /\ a.price_per_unit.v <= 0
                       \/ a.amount_paid.t = "float" /\ a.amount_paid.v < 0)
                   => FailsUnchanged(p)
                /\ (/\ pc[p] = "sell_insert"
                    /\ \/ a.cash_discount < 0 \/ a.labour_charge < 0
                       \/ a.transport_charge < 0 \/ a.total_amount < 0)
                   => FailsUnchanged(p)
                /\ (/\ CallStep(p, Pay)
                    /\ a.amount_paid.t = "float" /\ a.amount_paid.v < 0)
                   => FailsUnchanged(p)]_vars

\* a purchase whose fields pass the engine's validators but whose
\* mandi_charge is negative was refused, with a row already in the ledger
C21_Witness ==
    \E p \in Procs :
        /\ pc[p] = "done"
        /\ local[p].op = Buy
        /\ FieldsOk(local[p].args, local[p].args.buyer_name)
        /\ local[p].args.amount_paid.v <= local[p].args.total_amount
        /\ local[p].args.mandi_charge < 0
        /\ ~ret[p].ok
        /\ DOMAIN db # {}

(***************************************************************************)
(* C22.  Fields that do not apply to a row's type are empty: a BUY row has *)
(* a non-empty buyer_name, no seller_name and cash_discount =              *)
(* labour_charge = transport_charge = 0; a SELL row has a non-empty        *)
(* seller_name, no buyer_name and mandi_charge = tractor_rent = muddat =   *)
(* 0; the transaction_type of a row never changes.                         *)
(***************************************************************************)
C22_FieldsByType ==
    [][/\ \A i \in DOMAIN db' :
            LET row == db'[i]
            IN  /\ row.transaction_type = "BUY"
                   => /\ row.buyer_name \notin {<<>>, Null}
                      /\ row.seller_name \in {<<>>, Null}
                      /\ row.cash_discount = 0
                      /\ row.labour_charge = 0
                      /\ row.transport_charge = 0
                /\ row.transaction_type = "SELL"
                   => /\ row.seller_name \notin {<<>>, Null}
                      /\ row.buyer_name \in {<<>>, Null}
                      /\ row.mandi_charge = 0
                      /\ row.tractor_rent = 0
                      /\ row.muddat = 0
       /\ \A i \in DOMAIN db \cap DOMAIN db' :
            db'[i].transaction_type = db[i].transaction_type]_vars

\* a SOLD purchase with its own charges and a paid sale with its own
\* deductions are in the ledger, both updated after their creation
C22_Witness ==
    \E i, j \in DOMAIN db :
        /\ db[i].transaction_type = "BUY" /\ db[i].status = "SOLD"
        /\ db[i].mandi_charge > 0 /\ db[i].tractor_rent > 0 /\ db[i].muddat > 0
        /\ db[j].transaction_type = "SELL" /\ db[j].updated_at = Refreshed
        /\ db[j].cash_discount > 0 /\ db[j].labour_charge > 0
        /\ db[j].transport_charge > 0

\* the columns the SELL INSERT of lines 232-240 fills with the sale's own
\* data, with the id and the update stamp
OwnColumns ==
    {"id", "transaction_type", "buyer_name", "seller_name", "item_name",
     "quantity_kg", "price_per_unit", "base_amount", "mandi_charge",
     "tractor_rent", "muddat", "cash_discount", "labour_charge",
     "transport_charge", "total_amount", "amount_paid", "notes", "status",
     "updated_at"}

(***************************************************************************)
(* C23.  After a successful linked sale the persisted SELL row references  *)
(* the id of the BUY it settled: some column of the row, other than those  *)
(* holding the sale's own data, holds the id of the purchase.              *)
(***************************************************************************)
C23_SaleReferencesPurchase ==
    \A p \in Procs :
        (/\ pc[p] = "done"
         /\ local[p].op = Sell
         /\ ret[p].ok
         /\ local[p].args.buy_transaction_id # NoId
         /\ ret[p].id \in DOMAIN db)
        => \E f \in DOMAIN db[ret[p].id] \ OwnColumns :
              db[ret[p].id][f] = local[p].args.buy_transaction_id

(***************************************************************************)
(* C24.  A successful update_payment(id, a) changes only amount_paid (to   *)
(* a) and updated_at of the row with that id: its other fields and every   *)
(* other row are unchanged; update_payment on an id that does not exist    *)
(* returns failure and changes nothing.                                    *)
(***************************************************************************)
C24_PaymentFrame ==
    [][\A p \in Procs :
        LET a == local'[p].args
            i == a.transaction_id
        IN  /\ (CallStep(p, Pay) /\ ret'[p].ok)
               => /\ i \in DOMAIN db
                  /\ DOMAIN db' = DOMAIN db
                  /\ db'[i].amount_paid = a.amount_paid.v
                  /\ db'[i].updated_at = Refreshed
                  /\ \A f \in DOMAIN db[i] \ {"amount_paid", "updated_at"} :
                        db'[i][f] = db[i][f]
                  /\ \A j \in DOMAIN db \ {i} : db'[j] = db[j]
                  /\ seq' = seq
            /\ (CallStep(p, Pay) /\ i \notin DOMAIN db)
               => FailsUnchanged(p)]_vars

\* a payment on a SOLD purchase was accepted: the row is still SOLD, holds
\* the new amount, and the sale next to it was not touched by an update of
\* its payment
C24_Witness ==
    \E p \in Procs :
        /\ pc[p] = "done"
        /\ local[p].op = Pay
        /\ ret[p].ok
        /\ local[p].args.transaction_id \in DOMAIN db
        /\ LET row == db[local[p].args.transaction_id]
           IN  /\ row.status = "SOLD"
               /\ row.amount_paid = local[p].args.amount_paid.v
               /\ row.amount_paid > 0
        /\ \E j \in DOMAIN db : db[j].transaction_type = "SELL"

TextChars == {"a", " ", "-", "+", "%", "*", "#", "<"}

ValidatorTexts ==
    UNION {[1..n -> TextChars] : n \in 0..MaxText}
        \cup {[i \in 1..MAX_ITEM_NAME_LENGTH |-> "a"], LongName}

InitText ==
    /\ db = <<>>
    /\ seq = 0
    /\ settled = {}
    /\ pc = [p \in Procs |-> "idle"]
    /\ ret = [p \in Procs |-> NoRet]
    /\ local \in {[p \in Procs |->
                     [op |-> "validate", args |-> [name |-> text],
                      transaction_id |-> NoId]] : text \in ValidatorTexts}

\* the validator returns (is_valid, error_msg)
ValidatorReturn(p, op, result) ==
    /\ pc[p] = "idle"
    /\ pc' = [pc EXCEPT ![p] = "done"]
    /\ ret' = [ret EXCEPT ![p] = [op |-> op, id |-> NoId, ok |-> result[1],
                                  err |-> result[2]]]
    /\ UNCHANGED <<db, seq, settled, local>>

CallValidateName(p) ==
    ValidatorReturn(p, "validate_name",
                    validate_name(local[p].args.name, "Name"))

CallValidateItemName(p) ==
    ValidatorReturn(p, "validate_item_name",
                    validate_item_name(local[p].args.name))

NextText ==
    \/ \E p \in Procs : CallValidateName(p)
    \/ \E p \in Procs : CallValidateItemName(p)

SpecText == InitText /\ [][NextText]_vars

\* word characters, space and . , ' & / ( ) -
NameCharacters ==
    WordChars \cup {" ", ".", ",", "'", "&", "/", "(", ")", "-"}

(***************************************************************************)
(* C26.  validate_item_name accepts every value that validate_name         *)
(* accepts, and additionally '+' and '%': every text that passes           *)
(* validate_name passes validate_item_name, and an accepted item name has  *)
(* no character outside word characters, space, . , ' & / ( ) - + %.       *)
(***************************************************************************)
C26_ItemNameExtendsName ==
    [][\A p \in Procs :
        LET text == local[p].args.name
            n == normalize_text(text)
        IN  (pc[p] = "idle" /\ ret'[p].op = "validate_item_name")
            => /\ validate_name(text, "Name")[1] => ret'[p].ok
               /\ ret'[p].ok
                  => \A i \in 1..Len(n) :
                        n[i] \in NameCharacters \cup {"+", "%"}]_vars

(***************************************************************************)
(* database.py get_pending_transactions, as views/pending_inventory.py     *)
(* calls it, next to the dashboard summary, while purchases are recorded,  *)
(* sold through linked sales and deleted.                                  *)
(***************************************************************************)
\* a query that leaves out the completed rows only
get_pending_transactions_Unsold ==
    SelectSeq(RowsDesc(db, seq), LAMBDA row : row.status # "COMPLETED")

\* SELECT * FROM transactions WHERE status = 'PENDING' ORDER BY id DESC
get_pending_transactions == SelectSeq(RowsDesc(db, seq), IsPending)

\* views/pending_inventory.py, line 23
CallPending(p) ==
    Shown(p, "get_pending_transactions", get_pending_transactions)

InventoryPurchase(p) ==
    LET calc == calculate_buying_price(Mul(1000 * Scale, 2 * Scale), 2 * Scale)
    IN  add_buying_transaction(p, Ram, Wheat, Float(2 * Scale),
            Float(1000 * Scale), calc[2], calc[3], calc[4], calc[1],
            Float(0), <<>>)

\* a sale of the whole lot, linked to any id or to none
InventorySale(p) ==
    \E buy_transaction_id \in 0..MaxId :
        LET calc == calculate_selling_price(Mul(1000 * Scale, 2 * Scale),
                                            2 * Scale)
        IN  add_selling_transaction(p, Ram, Wheat, Float(2 * Scale),
                Float(1000 * Scale), calc[2], calc[3], calc[4], calc[1],
                Float(0), buy_transaction_id, <<>>)

NextInventory ==
    \/ \E p \in Procs : InventoryPurchase(p)
    \/ \E p \in Procs : InventorySale(p)
    \/ \E p \in Procs : SellInsert(p)
    \/ \E p \in Procs : SellLink(p)
    \/ \E p \in Procs : CallDelete(p)
    \/ \E p \in Procs : CallPending(p)
    \/ \E p \in Procs : CallSummary(p)
    \/ \E p \in Procs : Rerun(p)

SpecInventory == Init /\ [][NextInventory]_vars

(***************************************************************************)
(* C27.  SOLD is absorbing: a purchase named by a linked sale that         *)
(* returned its id has status SOLD for as long as it is in the table,      *)
(* whatever is done afterwards, the deletion of that sale included; it is  *)
(* in no result of get_pending_transactions and every later sale naming    *)
(* it is rejected.                                                         *)
(***************************************************************************)
C27_SoldAbsorbing ==
    [][/\ \A b \in settled :
            /\ b \in DOMAIN db => db[b].status = "SOLD"
            /\ b \in DOMAIN db' => db'[b].status = "SOLD"
       /\ \A p \in Procs :
            /\ CallStep(p, "get_pending_transactions")
               => \A k \in 1..Len(ret'[p].value) :
                     /\ ret'[p].value[k].id \notin settled
                     /\ ret'[p].value[k].status # "SOLD"
            /\ (/\ CallStep(p, Sell)
                /\ local'[p].args.buy_transaction_id \in DOMAIN db
                /\ db[local'[p].args.buy_transaction_id].status = "SOLD")
               => FailsUnchanged(p)]_vars

\* the sale that settled a purchase was deleted, the purchase is still SOLD
\* and the pending inventory shown after that is empty
C27_Witness ==
    \E p \in Procs :
        /\ pc[p] = "done"
        /\ local[p].op = "get_pending_transactions"
        /\ ret[p].value = <<>>
        /\ \E b \in settled : DOMAIN db = {b} /\ db[b].status = "SOLD"

(***************************************************************************)
(* Two sessions recording purchases and linked sales at the same time.     *)
(* The steps of add_selling_transaction (the checks with their read, the   *)
(* INSERT with its commit, the UPDATE with its commit) use a connection    *)
(* each and hold no lock between them, so the steps of the two sessions    *)
(* interleave.                                                             *)
(***************************************************************************)
InitOverlap ==
    /\ db = <<>>
    /\ seq = 0
    /\ pc = [p \in Sessions |-> "idle"]
    /\ local = [p \in Sessions |-> NoLocal]
    /\ ret = [p \in Sessions |-> NoRet]
    /\ settled = {}

NextOverlap ==
    \/ \E p \in Sessions : InventoryPurchase(p)
    \/ \E p \in Sessions : InventorySale(p)
    \/ \E p \in Sessions : SellInsert(p)
    \/ \E p \in Sessions : SellLink(p)
    \/ \E p \in Sessions : Rerun(p)

SpecOverlap == InitOverlap /\ [][NextOverlap]_vars

(***************************************************************************)
(* C28.  When two add_selling_transaction calls naming the same PENDING    *)
(* purchase overlap, at most one of them persists a SELL row for that      *)
(* purchase.                                                               *)
(***************************************************************************)
C28_OneSalePerPurchase ==
    \A p, q \in DOMAIN pc :
        (/\ p # q
         /\ local[p].op = Sell /\ local[q].op = Sell
         /\ local[p].args.buy_transaction_id # NoId
         /\ local[p].args.buy_transaction_id = local[q].args.buy_transaction_id
         /\ local[p].transaction_id \in DOMAIN db)
        => local[q].transaction_id \notin DOMAIN db

(***************************************************************************)
(* C29.  The pending inventory is consistent across the views: the rows    *)
(* get_pending_transactions returns are exactly the BUY rows in the table  *)
(* that no successful linked sale has named, in descending order of id,    *)
(* and their number is the pending_count of get_transaction_summary        *)
(* applied to get_all_transactions.                                        *)
(***************************************************************************)
C29_PendingConsistent ==
    [][\A p \in Procs :
        LET v == ret'[p].value
            unsold == {i \in DOMAIN db :
                          db[i].transaction_type = "BUY" /\ i \notin settled}
        IN  CallStep(p, "get_pending_transactions")
            => /\ {v[k].id : k \in 1..Len(v)} = unsold
               /\ Len(v) = Cardinality(unsold)
               /\ \A k \in 1..(Len(v) - 1) : v[k].id > v[k + 1].id
               /\ \A k \in 1..Len(v) :
                     \A f \in {"transaction_type", "status", "item_name",
                                "quantity_kg", "price_per_unit", "base_amount",
                                "total_amount", "amount_paid"} :
                        v[k][f] = db[v[k].id][f]
               /\ Len(v) =
                     get_transaction_summary(get_all_transactions).pending_count]_vars

\* two purchases are pending and the inventory lists the newer one first
C29_Witness ==
    \E p \in Procs :
        /\ pc[p] = "done"
        /\ local[p].op = "get_pending_transactions"
        /\ Len(ret[p].value) = 2
        /\ ret[p].value[1].id > ret[p].value[2].id
        /\ settled = {}

\* the sum of field over the rows of a party ledger
RECURSIVE LedgerSum(_, _)
LedgerSum(ledger, field) ==
    IF ledger = {} THEN 0
    ELSE LET row == CHOOSE r \in ledger : TRUE
         IN  row[field] + LedgerSum(ledger \ {row}, field)

\* the ids of all transactions of a role
RoleIds(role) == {i \in DOMAIN db : db[i].transaction_type = role}

\* every transaction of the role is counted in one row of the ledger
Partitions(ledger, role) ==
    /\ LedgerSum(ledger, "balance") =
           FieldOver(db, RoleIds(role), "base_amount")
               - FieldOver(db, RoleIds(role), "amount_paid")
    /\ LedgerSum(ledger, "transactions") = Cardinality(RoleIds(role))

(***************************************************************************)
(* C30.  The party ledger partitions the ledger: for each role the sum of  *)
(* the party rows' balances is the sum of base_amount minus the sum of     *)
(* amount_paid over all transactions of that role, and the sum of the      *)
(* rows' transaction counts is the number of those transactions.           *)
(***************************************************************************)
C30_LedgerPartitions ==
    [][\A p \in Procs :
        /\ CallStep(p, "render_buyer_ledger")
           => Partitions(ret'[p].value, "BUY")
        /\ CallStep(p, "render_seller_ledger")
           => Partitions(ret'[p].value, "SELL")]_vars

=============================================================================
